---- MODULE Spec2Model ----
(***************************************************************************)
(* Agent loop (LangChainLLM.chat_with_tools) and the MCP tool registry of  *)
(* agentlab, as one state machine.  One chat_with_tools call runs against  *)
(* the module-level registry singleton, which other actors may mutate      *)
(* while the loop is suspended at an await.                                *)
(*                                                                         *)
(* Spec is the agent loop.  SpecContext is the ContextBuilder, whose       *)
(* methods are functions of their arguments: args holds the arguments and  *)
(* outcome what the method returned.  SpecRegistry is the registry as the  *)
(* callers of its methods see it, with no chat_with_tools call running.    *)
(* SpecRace is two concurrent callers of register.  SpecFair is the agent  *)
(* loop whose awaited calls all return or raise.  SpecValidate is          *)
(* MCPToolBase.execute_with_validation.                                    *)
(***************************************************************************)
EXTENDS Integers, Sequences, FiniteSets, TLC

VARIABLES
    _tools,              \* MCPToolRegistry._tools: registered tools, insertion order
    pc,                  \* position of the chat_with_tools coroutine
    args,                \* the arguments of the call under way or just made
    langchain_tools,     \* tools bound to llm_with_tools
    langchain_messages,  \* running message sequence
    response,            \* last response of llm_with_tools.ainvoke
    iteration,           \* loop variable of `for iteration in range(max_iterations)`
    tc_index,            \* position in response.tool_calls (1-based)
    agent_steps,
    all_tool_results,
    step_number,
    llm_calls,           \* call log of the LLM collaborator (ainvoke calls made)
    tool_execs,          \* call log of the tool executors (execute calls made)
    registry_consulted,  \* get_registry() has been called by this call
    outcome              \* what the call returned or raised

vars == <<_tools, pc, args, langchain_tools, langchain_messages, response,
          iteration, tc_index, agent_steps, all_tool_results, step_number,
          llm_calls, tool_execs, registry_consulted, outcome>>

loopVars == <<pc, args, langchain_tools, langchain_messages, response,
              iteration, tc_index, agent_steps, all_tool_results, step_number,
              llm_calls, tool_execs, registry_consulted, outcome>>

-----------------------------------------------------------------------------
(* Bounds of the model *)

MaxIterations == 2      \* largest max_iterations argument tried
MaxToolCalls == 2       \* most tool calls in one LLM response

(* Program constants *)

DefaultTemperature == 7     \* self.temperature, in tenths
DefaultMaxTokens == 1000    \* self.max_tokens
MaxTokensLimit == 4000
MaxTemperature == 10        \* 1.0, in tenths

\* Optional values: None is the empty tuple, a present value x is <<x>>.
None == <<>>
Some(x) == <<x>>

ToolNames == {"get_current_datetime", "calculator"}

-----------------------------------------------------------------------------
(* Python values *)

\* Exceptions: a class and the parts of the message.
Exc(type, msg) == [type |-> type, msg |-> msg]

\* Classes caught by `except ValueError`.
IsValueError(e) == e.type = "ValueError"

\* Classes caught by `except Exception`; CancelledError derives from BaseException.
IsException(e) == e.type # "CancelledError"

\* str(e): KeyError shows the repr of its argument, the others the argument.
StrOfExc(e) ==
    IF e.type = "KeyError" THEN <<"'">> \o e.msg \o <<"'">> ELSE e.msg

EmptyDict == [k \in {} |-> None]

\* dict.get(key, default)
DictGet(d, key, default) == IF key \in DOMAIN d THEN d[key] ELSE default

Range(s) == {s[i] : i \in 1..Len(s)}

-----------------------------------------------------------------------------
(* Tool registry *)

\* A tool object: the name it answers to, and which object it is (two tools
\* of one name are two objects).
Tool(name, impl) == [name |-> name, impl |-> impl]

ToolImpls == {"first", "second"}

\* DateTimeTool(), the tool __init__ registers.
DateTimeTool == Tool("get_current_datetime", "first")

\* isinstance(tool, MCPToolBase)
IsMCPTool(obj) == "name" \in DOMAIN obj

\* list(self._tools.keys()): the dictionary keeps its keys in insertion order.
ToolKeys == [i \in 1..Len(_tools) |-> _tools[i].name]

has_tool(name) == name \in Range(ToolKeys)

get_tool_always(name) == Some(Tool(name, "first"))

\* self._tools.get(name)
get_tool_among_bound(name) ==
    IF has_tool(name) /\ name \in Range(langchain_tools)
    THEN Some(CHOOSE tool \in Range(_tools) : tool.name = name)
    ELSE None

get_tool(name) ==
    IF has_tool(name) THEN Some(CHOOSE tool \in Range(_tools) : tool.name = name)
    ELSE None

list_tools == ToolKeys

\* del tools[name]
RECURSIVE Without(_, _)
Without(s, name) ==
    IF s = <<>> THEN <<>>
    ELSE IF Head(s).name = name THEN Without(Tail(s), name)
    ELSE <<Head(s)>> \o Without(Tail(s), name)

DictSet_in_front(tools, tool) == <<tool>> \o tools

\* tools[tool.name] = tool: a new key goes to the end, the value of a key
\* that is there is replaced in its place.
DictSet(tools, tool) ==
    IF tool.name \in {tools[i].name : i \in 1..Len(tools)}
    THEN [i \in 1..Len(tools) |-> IF tools[i].name = tool.name THEN tool ELSE tools[i]]
    ELSE Append(tools, tool)

AlreadyRegistered_never(tool_name) == FALSE

\* `if tool_name in self._tools`
AlreadyRegistered(tool_name) == has_tool(tool_name)

\* The ValueError register raises for an object, if any.
RegisterError(obj) ==
    IF ~ IsMCPTool(obj)
    THEN Some(Exc("ValueError", <<"Tool must be an instance of MCPToolBase">>))
    ELSE IF AlreadyRegistered(obj.name)
    THEN Some(Exc("ValueError", <<"Tool '", obj.name, "' is already registered. ",
                                  "Each tool must have a unique name.">>))
    ELSE None

UnregisterError_never(tool_name) == None

\* The KeyError unregister raises for a name, if any.
UnregisterError(tool_name) ==
    IF ~ has_tool(tool_name)
    THEN Some(Exc("KeyError", <<"Tool '", tool_name, "' not found in registry">>))
    ELSE None

\* get_langchain_tools: the tools to bind, or the KeyError it raises.
RECURSIVE NamedTools(_)
NamedTools(names) ==
    IF names = <<>> THEN [raised |-> FALSE, tools |-> <<>>]
    ELSE IF ~ has_tool(Head(names))
         THEN [raised |-> TRUE,
               exc |-> Exc("KeyError", <<"Tool '", Head(names), "' not found in registry">>)]
         ELSE LET rest == NamedTools(Tail(names))
              IN  IF rest.raised THEN rest
                  ELSE [raised |-> FALSE, tools |-> <<Head(names)>> \o rest.tools]

get_langchain_tools_empty_means_all(tool_names) ==
    IF tool_names = None \/ tool_names = Some(<<>>)
    THEN [raised |-> FALSE, tools |-> ToolKeys]
    ELSE NamedTools(tool_names[1])

get_langchain_tools(tool_names) ==
    IF tool_names = None THEN [raised |-> FALSE, tools |-> ToolKeys]
    ELSE NamedTools(tool_names[1])

\* register / unregister by another actor of the process.  The call runs on
\* the event loop, so another actor runs before the call or while the
\* coroutine is suspended at an await.
Suspended == pc \in {"idle", "await_llm", "await_tool", "await_final"}

register(tool) ==
    /\ Suspended
    /\ RegisterError(tool) = None
    /\ _tools' = DictSet(_tools, tool)
    /\ UNCHANGED loopVars

unregister(name) ==
    /\ Suspended
    /\ UnregisterError(name) = None
    /\ _tools' = Without(_tools, name)
    /\ UNCHANGED loopVars

-----------------------------------------------------------------------------
(* chat_with_tools: inputs *)

UserMessage == [role |-> "user", content |-> "What time is it?"]

MessageLists == {<<>>, <<UserMessage>>}
ToolNameLists == {None, Some(<<>>), Some(<<"get_current_datetime">>),
                  Some(<<"nonexistent_tool">>)}
Temperatures == {None, Some(-1), Some(MaxTemperature + 1)}
TokenLimits == {None, Some(0), Some(MaxTokensLimit + 1)}
IterationLimits == 0..MaxIterations

NoArgs == [messages |-> <<>>, tool_names |-> None, temperature |-> None,
           max_tokens |-> None, max_iterations |-> 0]

\* `x if x is not None else default`
OrDefault(x, default) == IF x = None THEN default ELSE x[1]

temp_of(a) == OrDefault(a.temperature, DefaultTemperature)
tokens_of(a) == OrDefault(a.max_tokens, DefaultMaxTokens)

EntryCheck_no_max_tokens(a) ==
    IF a.messages = <<>>
    THEN [raised |-> TRUE, exc |-> Exc("ValueError", <<"Messages list cannot be empty">>)]
    ELSE IF a.max_iterations < 1
    THEN [raised |-> TRUE, exc |-> Exc("ValueError", <<"max_iterations must be at least 1">>)]
    ELSE IF ~ (0 <= temp_of(a) /\ temp_of(a) <= MaxTemperature)
    THEN [raised |-> TRUE, exc |-> Exc("ValueError", <<"temperature must be between 0.0 and 1.0">>)]
    ELSE [raised |-> FALSE]

\* The ValueError raised by the checks at the head of chat_with_tools, if any.
EntryCheck(a) ==
    IF a.messages = <<>>
    THEN [raised |-> TRUE, exc |-> Exc("ValueError", <<"Messages list cannot be empty">>)]
    ELSE IF a.max_iterations < 1
    THEN [raised |-> TRUE, exc |-> Exc("ValueError", <<"max_iterations must be at least 1">>)]
    ELSE IF ~ (0 <= temp_of(a) /\ temp_of(a) <= MaxTemperature)
    THEN [raised |-> TRUE, exc |-> Exc("ValueError", <<"temperature must be between 0.0 and 1.0">>)]
    ELSE IF ~ (0 < tokens_of(a) /\ tokens_of(a) <= MaxTokensLimit)
    THEN [raised |-> TRUE, exc |-> Exc("ValueError", <<"max_tokens must be between 1 and 4000">>)]
    ELSE [raised |-> FALSE]

\* _convert_messages: user, assistant and system messages; other roles are dropped.
RECURSIVE _convert_messages(_)
_convert_messages(messages) ==
    IF messages = <<>> THEN <<>>
    ELSE LET m == Head(messages)
             rest == _convert_messages(Tail(messages))
         IN  IF m.role = "user" THEN <<[type |-> "human", content |-> m.content]>> \o rest
             ELSE IF m.role = "assistant" THEN <<[type |-> "ai", content |-> m.content]>> \o rest
             ELSE IF m.role = "system" THEN <<[type |-> "system", content |-> m.content]>> \o rest
             ELSE rest

Surface_wrap_all(e) ==
    IF IsException(e)
    THEN Exc("RuntimeError", <<"Chat with tools failed: ">> \o StrOfExc(e))
    ELSE e

\* The handlers that close the try block: ValueError is re-raised, any other
\* Exception is wrapped in a RuntimeError, a BaseException passes through.
Surface(e) ==
    IF IsValueError(e) THEN e
    ELSE IF IsException(e)
         THEN Exc("RuntimeError", <<"Chat with tools failed: ">> \o StrOfExc(e))
         ELSE e

Raised(e) == [kind |-> "raised", exc |-> e]

Returned_answer_only(text, steps, results) ==
    [kind |-> "returned", text |-> text, agent_steps |-> <<steps[Len(steps)]>>,
     tool_results |-> results]

\* `return response.content, agent_steps, all_tool_results`
Returned(text, steps, results) ==
    [kind |-> "returned", text |-> text, agent_steps |-> steps, tool_results |-> results]

-----------------------------------------------------------------------------
(* chat_with_tools: from the call to the first await *)

Call(a) ==
    /\ pc = "idle"
    /\ args' = a
    /\ UNCHANGED <<_tools, response, iteration, tc_index, llm_calls, tool_execs>>
    /\ IF EntryCheck(a).raised
       THEN /\ pc' = "raised"
            /\ outcome' = Raised(EntryCheck(a).exc)
            /\ UNCHANGED <<langchain_tools, langchain_messages, agent_steps,
                           all_tool_results, step_number, registry_consulted>>
       ELSE LET bound == get_langchain_tools(a.tool_names)
            IN  /\ registry_consulted' = TRUE
                /\ IF bound.raised
                   THEN /\ pc' = "raised"
                        /\ outcome' = Raised(Surface(bound.exc))
                        /\ UNCHANGED <<langchain_tools, langchain_messages, agent_steps,
                                       all_tool_results, step_number>>
                   ELSE IF bound.tools = <<>>
                   THEN /\ pc' = "raised"
                        /\ outcome' = Raised(Surface(Exc("ValueError", <<"No tools available">>)))
                        /\ UNCHANGED <<langchain_tools, langchain_messages, agent_steps,
                                       all_tool_results, step_number>>
                   ELSE /\ pc' = "await_llm"
                        /\ langchain_tools' = bound.tools
                        /\ langchain_messages' = _convert_messages(a.messages)
                        /\ agent_steps' = <<>>
                        /\ all_tool_results' = <<>>
                        /\ step_number' = 1
                        /\ UNCHANGED outcome

-----------------------------------------------------------------------------
(* Collaborators: what the LLM and the tools may answer *)

CancelledError == Exc("CancelledError", <<>>)

\* Failures of ainvoke: a provider error, a request the client rejects.
LLMErrors == {Exc("ConnectionError", <<"provider unavailable">>),
              Exc("ValueError", <<"invalid request">>)}

\* The n-th response of the LLM: its text and its tool calls.  The provider
\* gives every tool call an id of its own.
ResponseText(n) == <<"response", n>>

RECURSIVE CallList(_, _, _)
CallList(n, names, i) ==
    IF names = <<>> THEN <<>>
    ELSE <<[id |-> <<"call", n, i>>, name |-> Head(names), args |-> EmptyDict]>>
            \o CallList(n, Tail(names), i + 1)

NameLists == UNION {[1..k -> ToolNames] : k \in 0..MaxToolCalls}

LLMResponses(n) ==
    {[content |-> ResponseText(n), tool_calls |-> CallList(n, names, 1)] : names \in NameLists}

\* DateTimeTool.execute returns one of two dictionaries, or raises the
\* validation error of DateTimeInput; another tool returns its data or crashes.
DateTimeOk == [success |-> TRUE, datetime |-> "2025-01-01T00:00:00+00:00",
               error |-> None]
DateTimeInvalidTimezone == [success |-> FALSE, datetime |-> "",
                            error |-> <<"Invalid timezone">>]
CalculatorData == [data |-> "result"]

ToolReturnValues(name) ==
    IF name = "get_current_datetime" THEN {DateTimeOk, DateTimeInvalidTimezone}
    ELSE {CalculatorData}

ToolErrors(name) ==
    IF name = "get_current_datetime" THEN {Exc("ValueError", <<"validation error for DateTimeInput">>)}
    ELSE {Exc("RuntimeError", <<"Tool crashed">>)}

-----------------------------------------------------------------------------
(* chat_with_tools: the agent loop *)

ToolCall(d) == [id |-> d.id, name |-> d.name, args |-> d.args]

NotFoundResult_as_success(tool_call) ==
    [tool_call_id |-> tool_call.id, tool_name |-> tool_call.name, result |-> EmptyDict,
     success |-> TRUE, error |-> None]

NotFoundResult_first_id(tool_call) ==
    [tool_call_id |-> response.tool_calls[1].id, tool_name |-> tool_call.name,
     result |-> EmptyDict, success |-> FALSE,
     error |-> <<"Tool '", tool_call.name, "' not found in registry">>]

NotFoundResult(tool_call) ==
    [tool_call_id |-> tool_call.id, tool_name |-> tool_call.name, result |-> EmptyDict,
     success |-> FALSE,
     error |-> <<"Tool '", tool_call.name, "' not found in registry">>]

ExecutedResult_always_success(tool_call, result) ==
    [tool_call_id |-> tool_call.id, tool_name |-> tool_call.name, result |-> result,
     success |-> TRUE,
     error |-> DictGet(result, "error", None)]

\* ToolResult(..., result=result, success=result.get("success", True),
\* error=result.get("error"))
ExecutedResult(tool_call, result) ==
    [tool_call_id |-> tool_call.id, tool_name |-> tool_call.name, result |-> result,
     success |-> DictGet(result, "success", TRUE),
     error |-> DictGet(result, "error", None)]

FailedResult(tool_call, e) ==
    [tool_call_id |-> tool_call.id, tool_name |-> tool_call.name, result |-> EmptyDict,
     success |-> FALSE,
     error |-> <<"Tool execution failed: ">> \o StrOfExc(e)]

\* str(tool_result.result)
StrOfDict(d) == [repr |-> d]

ToolMessage(content, tool_call_id) ==
    [type |-> "tool", content |-> content, tool_call_id |-> tool_call_id]

ToolCallStep(n, tool_call, tool_result) ==
    [step_number |-> n, action |-> "tool_call", tool_call |-> Some(tool_call),
     tool_result |-> Some(tool_result), reasoning |-> None]

FinalAnswerStep(n, reasoning) ==
    [step_number |-> n, action |-> "final_answer", tool_call |-> None,
     tool_result |-> None, reasoning |-> Some(reasoning)]

CompletedReasoning(iter) == <<"Agent completed after ", iter + 1, " iteration(s)">>
ForcedReasoning(max_iterations) ==
    <<"Max iterations (", max_iterations, ") reached, forcing final answer">>

CurrentCall == ToolCall(response.tool_calls[tc_index])

MoreIterations_unbounded(iter, max_iterations) == TRUE

MoreIterations_inclusive(iter, max_iterations) == iter + 1 <= max_iterations

\* `for iteration in range(max_iterations)`: is there an iteration after this one?
MoreIterations(iter, max_iterations) == iter + 1 < max_iterations

NextStepNumber_same(n) == n

\* `step_number += 1`
NextStepNumber(n) == n + 1

ToolErrorCaught_runtime_only(e) == e.type = "RuntimeError"

ToolErrorCaught_cancellation_too(e) == TRUE

\* The inner handler, `except Exception as e`, around tool.execute.
ToolErrorCaught(e) == IsException(e)

WithFinalAnswer_forgotten(steps, n, reasoning) == steps

\* agent_steps.append(AgentStep(..., action="final_answer", ...))
WithFinalAnswer(steps, n, reasoning) == Append(steps, FinalAnswerStep(n, reasoning))

\* Entries of the call logs: which object's ainvoke was awaited (llm_with_tools
\* or the bare llm), which tool call was executed, and what the await raised.
LLMCall(tools_bound, raised) == [tools_bound |-> tools_bound, raised |-> raised]
LoopCall(raised) == LLMCall(TRUE, raised)
ForcedCall_bound(raised) == LLMCall(TRUE, raised)
ForcedCall(raised) == LLMCall(FALSE, raised)
ToolExec(tool_call, raised) == [id |-> tool_call.id, name |-> tool_call.name, raised |-> raised]
ToolExecReturned(tool_call, result) ==
    [id |-> tool_call.id, name |-> tool_call.name, raised |-> None, returned |-> result]

WithToolResult_failures_dropped(results, tool_result) ==
    IF tool_result.success THEN Append(results, tool_result) ELSE results

\* all_tool_results.append(tool_result)
WithToolResult(results, tool_result) == Append(results, tool_result)

WithToolStep_in_front(steps, step) == <<step>> \o steps

\* agent_steps.append(AgentStep(..., action="tool_call", ...))
WithToolStep(steps, step) == Append(steps, step)

\* The end of the body of the inner loop, and the step to what follows it:
\* the next tool call, the next iteration, or the forced final call.
RecordResult(tool_call, tool_result) ==
    /\ all_tool_results' = WithToolResult(all_tool_results, tool_result)
    /\ langchain_messages' = Append(langchain_messages,
                                    ToolMessage(StrOfDict(tool_result.result), tool_call.id))
    /\ agent_steps' = WithToolStep(agent_steps,
                                   ToolCallStep(step_number, tool_call, tool_result))
    /\ step_number' = NextStepNumber(step_number)
    /\ IF tc_index < Len(response.tool_calls)
       THEN /\ tc_index' = tc_index + 1
            /\ pc' = "lookup"
            /\ UNCHANGED iteration
       ELSE /\ tc_index' = 0
            /\ IF MoreIterations(iteration, args.max_iterations)
               THEN pc' = "await_llm" /\ iteration' = iteration + 1
               ELSE pc' = "await_final" /\ UNCHANGED iteration

\* llm_with_tools.ainvoke returns.
LLMReturns(r) ==
    /\ pc = "await_llm"
    /\ llm_calls' = Append(llm_calls, LoopCall(None))
    /\ response' = r
    /\ langchain_messages' = Append(langchain_messages,
                                    [type |-> "ai", content |-> r.content,
                                     tool_calls |-> r.tool_calls])
    /\ IF r.tool_calls = <<>>
       THEN /\ agent_steps' = WithFinalAnswer(agent_steps, step_number,
                                               CompletedReasoning(iteration))
            /\ pc' = "returned"
            /\ outcome' = Returned(r.content, agent_steps', all_tool_results)
            /\ UNCHANGED tc_index
       ELSE /\ pc' = "lookup"
            /\ tc_index' = 1
            /\ UNCHANGED <<agent_steps, outcome>>
    /\ UNCHANGED <<_tools, args, langchain_tools, iteration, all_tool_results,
                   step_number, tool_execs, registry_consulted>>

\* An ainvoke, of llm_with_tools or of llm, raises.
LLMRaises(e) ==
    /\ pc \in {"await_llm", "await_final"}
    /\ llm_calls' = Append(llm_calls, IF pc = "await_llm" THEN LoopCall(Some(e))
                                       ELSE ForcedCall(Some(e)))
    /\ pc' = "raised"
    /\ outcome' = Raised(Surface(e))
    /\ UNCHANGED <<_tools, args, langchain_tools, langchain_messages, response, iteration,
                   tc_index, agent_steps, all_tool_results, step_number, tool_execs,
                   registry_consulted>>

\* registry.get_tool for the current tool call.
ToolLookup ==
    /\ pc = "lookup"
    /\ IF get_tool(CurrentCall.name) = None
       THEN RecordResult(CurrentCall, NotFoundResult(CurrentCall))
       ELSE /\ pc' = "await_tool"
            /\ UNCHANGED <<langchain_messages, iteration, tc_index, agent_steps,
                           all_tool_results, step_number>>
    /\ UNCHANGED <<_tools, args, langchain_tools, response, llm_calls, tool_execs,
                   registry_consulted, outcome>>

\* tool.execute returns.
ToolReturns ==
    /\ pc = "await_tool"
    /\ \E result \in ToolReturnValues(CurrentCall.name) :
        /\ tool_execs' = Append(tool_execs, ToolExecReturned(CurrentCall, result))
        /\ RecordResult(CurrentCall, ExecutedResult(CurrentCall, result))
    /\ UNCHANGED <<_tools, args, langchain_tools, response, llm_calls,
                   registry_consulted, outcome>>

\* tool.execute raises.
ToolRaises ==
    /\ pc = "await_tool"
    /\ \E e \in ToolErrors(CurrentCall.name) \cup {CancelledError} :
        /\ tool_execs' = Append(tool_execs, ToolExec(CurrentCall, Some(e)))
        /\ IF ToolErrorCaught(e)
           THEN /\ RecordResult(CurrentCall, FailedResult(CurrentCall, e))
                /\ UNCHANGED outcome
           ELSE /\ pc' = "raised"
                /\ outcome' = Raised(Surface(e))
                /\ UNCHANGED <<langchain_messages, iteration, tc_index, agent_steps,
                               all_tool_results, step_number>>
    /\ UNCHANGED <<_tools, args, langchain_tools, response, llm_calls, registry_consulted>>

\* llm.ainvoke, the forced final call, returns.
FinalReturns ==
    /\ pc = "await_final"
    /\ llm_calls' = Append(llm_calls, ForcedCall(None))
    /\ agent_steps' = WithFinalAnswer(agent_steps, step_number,
                                      ForcedReasoning(args.max_iterations))
    /\ pc' = "returned"
    /\ outcome' = Returned(ResponseText(Len(llm_calls) + 1), agent_steps', all_tool_results)
    /\ UNCHANGED <<_tools, args, langchain_tools, langchain_messages, response, iteration,
                   tc_index, all_tool_results, step_number, tool_execs, registry_consulted>>

-----------------------------------------------------------------------------
(* The system *)

Init ==
    /\ _tools = <<DateTimeTool>>
    /\ pc = "idle"
    /\ args = NoArgs
    /\ langchain_tools = <<>>
    /\ langchain_messages = <<>>
    /\ response = [content |-> ResponseText(0), tool_calls |-> <<>>]
    /\ iteration = 0
    /\ tc_index = 0
    /\ agent_steps = <<>>
    /\ all_tool_results = <<>>
    /\ step_number = 1
    /\ llm_calls = <<>>
    /\ tool_execs = <<>>
    /\ registry_consulted = FALSE
    /\ outcome = [kind |-> "none"]

CallArgs ==
    [messages : MessageLists, tool_names : ToolNameLists, temperature : Temperatures,
     max_tokens : TokenLimits, max_iterations : IterationLimits]

Next ==
    \/ \E name \in ToolNames : register(Tool(name, "first"))
    \/ \E name \in ToolNames : unregister(name)
    \/ \E a \in CallArgs : Call(a)
    \/ \E r \in LLMResponses(Len(llm_calls) + 1) : LLMReturns(r)
    \/ \E e \in LLMErrors \cup {CancelledError} : LLMRaises(e)
    \/ ToolLookup
    \/ ToolReturns
    \/ ToolRaises
    \/ FinalReturns

Spec == Init /\ [][Next]_vars

-----------------------------------------------------------------------------
(* Properties of the agent loop *)

Last(s) == s[Len(s)]

\* The LLM turns of the run: the responses the loop appended to the messages.
LLMTurns == SelectSeq(langchain_messages, LAMBDA m : "tool_calls" \in DOMAIN m)

EveryTurnCallsTools == \A i \in 1..Len(LLMTurns) : LLMTurns[i].tool_calls # <<>>

FinalAnswerSteps(steps) == {i \in 1..Len(steps) : steps[i].action = "final_answer"}

ToolCallSteps(steps) == {i \in 1..Len(steps) : steps[i].action = "tool_call"}

\* C1: a run that returns after LLM turns that all carried tool calls made
\* exactly max_iterations such turns and max_iterations + 1 LLM calls, the
\* last one on the LLM without tools, and its trace ends with its only
\* final_answer step, whose reasoning tells that the answer was forced.
C1_ForcedFinalAnswer ==
    (pc = "returned" /\ EveryTurnCallsTools) =>
        /\ Len(LLMTurns) = args.max_iterations
        /\ Len(llm_calls) = args.max_iterations + 1
        /\ \A i \in 1..Len(llm_calls) :
              llm_calls[i].tools_bound = (i <= args.max_iterations)
        /\ FinalAnswerSteps(outcome.agent_steps) = {Len(outcome.agent_steps)}
        /\ Last(outcome.agent_steps).reasoning[1][1] = "Max iterations ("
        /\ Last(outcome.agent_steps).reasoning[1][2] = args.max_iterations

C1_Witness ==
    /\ pc = "returned"
    /\ EveryTurnCallsTools
    /\ args.max_iterations = MaxIterations
    /\ Len(llm_calls) = MaxIterations + 1

\* C2: at every moment of a call the LLM has been called at most
\* max_iterations + 1 times.
C2_LLMCallsBounded == Len(llm_calls) <= args.max_iterations + 1

C2_Witness ==
    /\ args.max_iterations = MaxIterations
    /\ Len(llm_calls) = args.max_iterations + 1
    /\ Last(llm_calls).raised # None

\* C3: when the first LLM turn carries no tool call, the call has returned
\* that turn's text, a trace of one final_answer step and no tool result,
\* after one LLM call and no tool execution.
C3_ImmediateAnswer ==
    (Len(LLMTurns) >= 1 /\ LLMTurns[1].tool_calls = <<>>) =>
        /\ pc = "returned"
        /\ outcome.kind = "returned"
        /\ outcome.text = LLMTurns[1].content
        /\ Len(outcome.agent_steps) = 1
        /\ outcome.agent_steps[1].action = "final_answer"
        /\ outcome.tool_results = <<>>
        /\ Len(llm_calls) = 1
        /\ tool_execs = <<>>

C3_Witness ==
    /\ pc = "returned"
    /\ Len(LLMTurns) = 1
    /\ LLMTurns[1].tool_calls = <<>>
    /\ args.max_iterations = MaxIterations

\* The step of the loop in which tool.execute raises an error the loop handles.
ExecuteRaised ==
    /\ pc = "await_tool"
    /\ Len(tool_execs') = Len(tool_execs) + 1
    /\ Last(tool_execs').raised # None
    /\ Last(tool_execs').raised[1] # CancelledError

IsLastCallOfTurn == tc_index = Len(response.tool_calls)

\* C4: when execute raises an error, the loop goes on: it records for that
\* call a result with success false and an error that carries the raised
\* message, raises nothing, and moves to the next tool call of the turn or,
\* after the last one, to the next LLM call or the forced final call.
C4_ExecuteErrorContained ==
    [][ExecuteRaised =>
        /\ Len(agent_steps') = Len(agent_steps) + 1
        /\ all_tool_results' = Append(all_tool_results, Last(agent_steps').tool_result[1])
        /\ Last(agent_steps').tool_call[1].id = Last(tool_execs').id
        /\ Last(all_tool_results').success = FALSE
        /\ Len(Last(all_tool_results').error) > Len(Last(tool_execs').raised[1].msg)
        /\ SubSeq(Last(all_tool_results').error, 2, Len(Last(all_tool_results').error))
              = Last(tool_execs').raised[1].msg
        /\ outcome' = outcome
        /\ llm_calls' = llm_calls
        /\ IF IsLastCallOfTurn
           THEN pc' \in {"await_llm", "await_final"}
           ELSE pc' = "lookup" /\ tc_index' = tc_index + 1
    ]_vars

C4_Witness ==
    /\ pc = "await_llm"
    /\ tool_execs # <<>>
    /\ Last(tool_execs).raised # None
    /\ Last(all_tool_results).success = FALSE
    /\ Last(all_tool_results).error[1] = "Tool execution failed: "

\* The step of the loop that looks up a tool the registry does not hold.
LookupMisses ==
    /\ pc = "lookup"
    /\ response.tool_calls[tc_index].name \notin Range(ToolKeys)

\* C5: when the tool an LLM turn names is not in the registry at the lookup,
\* the loop records for that call a result with success false and a
\* 'not found' error, executes nothing, raises nothing, and moves on as
\* after any other tool call.
C5_MissingToolContained ==
    [][LookupMisses =>
        /\ tool_execs' = tool_execs
        /\ Len(agent_steps') = Len(agent_steps) + 1
        /\ all_tool_results' = Append(all_tool_results, Last(agent_steps').tool_result[1])
        /\ Last(agent_steps').tool_call[1].id = response.tool_calls[tc_index].id
        /\ Last(all_tool_results').success = FALSE
        /\ Last(all_tool_results').result = EmptyDict
        /\ Last(all_tool_results').error[3] = "' not found in registry"
        /\ outcome' = outcome
        /\ llm_calls' = llm_calls
        /\ IF IsLastCallOfTurn
           THEN pc' \in {"await_llm", "await_final"}
           ELSE pc' = "lookup" /\ tc_index' = tc_index + 1
    ]_vars

C5_Witness ==
    /\ pc = "await_llm"
    /\ all_tool_results # <<>>
    /\ Last(all_tool_results).success = FALSE
    /\ Last(all_tool_results).error[1] = "Tool '"
    /\ tool_execs = <<>>

\* str(i) of a small index.
IndexText(i) == <<"0", "1", "2", "3", "4", "5", "6", "7", "8", "9">>[i + 1]

\* The step in which chat_with_tools is called.
CallStep == pc = "idle" /\ pc' # "idle"

\* The entry parameters the contract rejects.
EntryInvalid(a) ==
    \/ a.messages = <<>>
    \/ a.max_iterations < 1
    \/ a.temperature # None /\ (a.temperature[1] < 0 \/ a.temperature[1] > MaxTemperature)
    \/ a.max_tokens # None /\ (a.max_tokens[1] <= 0 \/ a.max_tokens[1] > MaxTokensLimit)

\* C6: a call whose tool_names holds a name the registry does not hold
\* raises a validation error, a ValueError as the other entry failures do,
\* and no LLM call is made.
C6_UnknownToolNameIsValidationError ==
    [][(/\ CallStep
        /\ ~ EntryInvalid(args')
        /\ args'.tool_names # None
        /\ \E i \in 1..Len(args'.tool_names[1]) : args'.tool_names[1][i] \notin Range(ToolKeys))
       => (/\ pc' = "raised"
           /\ outcome'.exc.type = "ValueError"
           /\ llm_calls' = <<>>)
    ]_vars

\* An ainvoke of the LLM has failed (a cancellation is not a failure of the
\* collaborator).
LLMFailed ==
    /\ llm_calls # <<>>
    /\ Last(llm_calls).raised # None
    /\ Last(llm_calls).raised[1] # CancelledError

C8_EntryValidationFailsFast ==
    (pc # "idle" /\ EntryInvalid(args)) =>
        /\ pc = "raised"
        /\ outcome.exc.type = "ValueError"
        /\ ~ registry_consulted
        /\ llm_calls = <<>>
        /\ tool_execs = <<>>
        /\ agent_steps = <<>>
        /\ all_tool_results = <<>>
        /\ langchain_messages = <<>>
        /\ langchain_tools = <<>>

C8_Witness ==
    /\ pc = "raised"
    /\ args.messages # <<>>
    /\ args.max_iterations >= 1
    /\ args.temperature = None
    /\ args.max_tokens = Some(MaxTokensLimit + 1)

StepNumbersFromOne(steps) == \A i \in 1..Len(steps) : steps[i].step_number = i

\* C9: the step numbers of the trace are 1, 2, ..., n in list order, while
\* the loop runs and in the trace it returns, on the path of a normal final
\* answer and on the forced one.
C9_StepNumbersConsecutive ==
    /\ StepNumbersFromOne(agent_steps)
    /\ pc = "returned" => StepNumbersFromOne(outcome.agent_steps)

C9_Witness ==
    /\ pc = "returned"
    /\ Len(outcome.agent_steps) >= 3
    /\ Last(outcome.agent_steps).reasoning[1][1] = "Agent completed after "
    /\ Last(outcome.agent_steps).step_number = Len(outcome.agent_steps)

\* C10: every tool_call step carries the result of its own call: the
\* result's tool_call_id is the call's id and its tool_name the call's name,
\* whether the tool ran, was not found, or raised.
C10_ResultMatchesCall ==
    \A i \in ToolCallSteps(agent_steps) :
        /\ agent_steps[i].tool_result[1].tool_call_id = agent_steps[i].tool_call[1].id
        /\ agent_steps[i].tool_result[1].tool_name = agent_steps[i].tool_call[1].name

C10_Witness ==
    /\ \E i \in ToolCallSteps(agent_steps) : agent_steps[i].tool_result[1].success
    /\ \E i \in ToolCallSteps(agent_steps) :
          /\ ~ agent_steps[i].tool_result[1].success
          /\ agent_steps[i].tool_result[1].error[1] = "Tool '"
    /\ \E i \in ToolCallSteps(agent_steps) :
          /\ ~ agent_steps[i].tool_result[1].success
          /\ agent_steps[i].tool_result[1].error[1] = "Tool execution failed: "

\* The tool_call steps of a trace, in trace order.
ToolCallStepSeq(steps) == SelectSeq(steps, LAMBDA st : st.action = "tool_call")

\* C11: at every point of the loop all_tool_results is as long as the
\* tool_call steps of the trace are many, and its i-th element is the
\* tool_result of the i-th tool_call step.
C11_OneResultPerCall ==
    /\ Len(all_tool_results) = Len(ToolCallStepSeq(agent_steps))
    /\ \A i \in 1..Len(all_tool_results) :
          all_tool_results[i] = ToolCallStepSeq(agent_steps)[i].tool_result[1]

C11_Witness ==
    /\ pc = "lookup"
    /\ Len(all_tool_results) = 3
    /\ ~ all_tool_results[1].success
    /\ all_tool_results[2].success
    /\ Len(ToolCallStepSeq(agent_steps)) = 3

RECURSIVE Flatten(_)
Flatten(seqs) == IF seqs = <<>> THEN <<>> ELSE Head(seqs) \o Flatten(Tail(seqs))

Ids(calls) == [i \in 1..Len(calls) |-> calls[i].id]

\* The ids of the tool calls the LLM turns of the run requested, in the order
\* of the turns and, within a turn, of the turn's tool_calls.
RequestedIds == Flatten([i \in 1..Len(LLMTurns) |-> Ids(LLMTurns[i].tool_calls)])

StepIds == [i \in 1..Len(ToolCallStepSeq(agent_steps)) |->
               ToolCallStepSeq(agent_steps)[i].tool_call[1].id]

ResultIds == [i \in 1..Len(all_tool_results) |-> all_tool_results[i].tool_call_id]

ToolMessages == SelectSeq(langchain_messages, LAMBDA m : "tool_call_id" \in DOMAIN m)

ToolMessageIds == [i \in 1..Len(ToolMessages) |-> ToolMessages[i].tool_call_id]

IsPrefix(s, t) == Len(s) <= Len(t) /\ s = SubSeq(t, 1, Len(s))

\* C12: the tool_call steps, the tool results and the tool messages follow
\* the order of the tool calls that the LLM turns requested; each turn's
\* tool messages come right after the turn's message, in the order of its
\* tool calls; and when the next LLM call is about to be issued all of them
\* have been appended.
C12_SiblingCallsInOrder ==
    /\ IsPrefix(StepIds, RequestedIds)
    /\ ResultIds = StepIds
    /\ ToolMessageIds = StepIds
    /\ \A i \in 1..Len(langchain_messages) :
          "tool_calls" \in DOMAIN langchain_messages[i] =>
              \A j \in 1..Len(langchain_messages[i].tool_calls) :
                  i + j <= Len(langchain_messages) =>
                      /\ "tool_call_id" \in DOMAIN langchain_messages[i + j]
                      /\ langchain_messages[i + j].tool_call_id
                            = langchain_messages[i].tool_calls[j].id
    /\ pc \in {"await_llm", "await_final"} => StepIds = RequestedIds

C12_Witness ==
    /\ pc = "await_llm"
    /\ Len(LLMTurns) = 1
    /\ Len(LLMTurns[1].tool_calls) = 2
    /\ Len(ToolMessages) = 2
    /\ all_tool_results[1].success # all_tool_results[2].success

\* C13: a call that has returned, whatever became of its tool calls, returned
\* the text of its last LLM call, the tool results, and a trace that holds
\* one tool_call step for every tool call the LLM turns requested, in their
\* order, followed by one final_answer step, its last.
C13_ReturnsFullTrace ==
    pc = "returned" =>
        /\ outcome.kind = "returned"
        /\ outcome.text = ResponseText(Len(llm_calls))
        /\ outcome.tool_results = all_tool_results
        /\ Len(outcome.agent_steps) = Len(RequestedIds) + 1
        /\ \A i \in 1..Len(RequestedIds) :
              /\ outcome.agent_steps[i].action = "tool_call"
              /\ outcome.agent_steps[i].tool_call[1].id = RequestedIds[i]
        /\ Last(outcome.agent_steps).action = "final_answer"

C13_Witness ==
    /\ pc = "returned"
    /\ Len(RequestedIds) = MaxToolCalls
    /\ \A i \in 1..Len(outcome.tool_results) : ~ outcome.tool_results[i].success
    /\ Last(llm_calls).tools_bound

LLMCancelled == llm_calls # <<>> /\ Last(llm_calls).raised = Some(CancelledError)

ToolCancelled == tool_execs # <<>> /\ Last(tool_execs).raised = Some(CancelledError)

\* C14: a cancellation delivered at an await of the LLM or of a tool's
\* execute ends the call: the cancelled await is the last LLM call or tool
\* execution, the caller gets the cancellation itself and neither an answer
\* nor a trace, and a cancelled execute leaves no ToolResult and no step.
C14_CancellationPropagates ==
    /\ [](/\ \A i \in 1..(Len(llm_calls) - 1) :
               llm_calls[i].raised # Some(CancelledError)
          /\ \A i \in 1..(Len(tool_execs) - 1) :
               tool_execs[i].raised # Some(CancelledError))
    /\ []((LLMCancelled \/ ToolCancelled) =>
            /\ pc = "raised"
            /\ outcome = Raised(CancelledError))
    /\ [](ToolCancelled =>
            /\ Last(tool_execs).id \notin Range(ResultIds)
            /\ Last(tool_execs).id \notin Range(StepIds)
            /\ Last(tool_execs).id \notin Range(ToolMessageIds))
    /\ [][(LLMCancelled \/ ToolCancelled) =>
            (llm_calls' = llm_calls /\ tool_execs' = tool_execs
             /\ outcome' = outcome /\ pc' = pc)]_vars

\* Cancelled in the execute of the second tool call of a turn, after the
\* first one was recorded.
C14_Witness ==
    /\ ToolCancelled
    /\ tc_index = 2
    /\ Len(all_tool_results) = 1
    /\ outcome.kind = "raised"

\* The executions of tools that returned normally.
NormalReturns == {i \in 1..Len(tool_execs) : tool_execs[i].raised = None}

\* The ToolResult the loop recorded for an execution.
ResultOf(exec) ==
    CHOOSE r \in Range(all_tool_results) : r.tool_call_id = exec.id

\* C15 as stated: every execute that returned normally is recorded with
\* success true and with the returned value as result.
C15_NormalReturnIsSuccess ==
    \A i \in NormalReturns :
        /\ ResultOf(tool_execs[i]).result = tool_execs[i].returned
        /\ ResultOf(tool_execs[i]).success = TRUE

\* C15 as amended: every execute that returned a dictionary is recorded with
\* that dictionary as result, with the dictionary's "success" entry, or true
\* when it has none, as success, and with its "error" entry, or none, as
\* error.
C15_NormalReturnIsRecorded ==
    \A i \in NormalReturns :
        /\ \E r \in Range(all_tool_results) : r.tool_call_id = tool_execs[i].id
        /\ ResultOf(tool_execs[i]).result = tool_execs[i].returned
        /\ ResultOf(tool_execs[i]).success =
              IF "success" \in DOMAIN tool_execs[i].returned
              THEN tool_execs[i].returned.success ELSE TRUE
        /\ ResultOf(tool_execs[i]).error =
              IF "error" \in DOMAIN tool_execs[i].returned
              THEN tool_execs[i].returned.error ELSE None

C15_Witness ==
    /\ \E i \in NormalReturns :
          /\ "success" \in DOMAIN tool_execs[i].returned
          /\ ~ tool_execs[i].returned.success
          /\ ~ ResultOf(tool_execs[i]).success
    /\ \E i \in NormalReturns :
          /\ "success" \notin DOMAIN tool_execs[i].returned
          /\ ResultOf(tool_execs[i]).success

-----------------------------------------------------------------------------
(* ContextBuilder: build_context and format_for_prompt *)

\* A text is the sequence of the pieces it was put together from; "" is the
\* empty sequence. An optional value is None or Some(value).

DefaultContextTokens == 4000

RECURSIVE Join(_, _)
\* sep.join(texts)
Join(texts, sep) ==
    IF texts = <<>> THEN <<>>
    ELSE IF Len(texts) = 1 THEN texts[1]
    ELSE texts[1] \o sep \o Join(Tail(texts), sep)

RECURSIVE SumSeq(_)
SumSeq(ns) == IF ns = <<>> THEN 0 ELSE Head(ns) + SumSeq(Tail(ns))

\* str(n) of a natural number.
RECURSIVE NumText(_)
NumText(n) == IF n < 10 THEN IndexText(n) ELSE NumText(n \div 10) \o IndexText(n % 10)

\* self.encoding.encode(text): the tokens of a text, about one for every
\* four characters of a piece, none reaching across two pieces.
encode(text) ==
    Flatten([i \in 1..Len(text) |->
                [j \in 1..((Len(text[i]) + 3) \div 4) |-> <<i, j>>]])

\* ContextBuilder.count_tokens
count_tokens(text) == IF text = <<>> THEN 0 ELSE Len(encode(text))

\* The items of a dictionary kept as a record, one key after the other.
RECURSIVE ItemsOf(_, _)
ItemsOf(d, keys) ==
    IF keys = {} THEN <<>>
    ELSE LET k == CHOOSE k \in keys : TRUE
         IN  <<[key |-> k, value |-> d[k]]>> \o ItemsOf(d, keys \ {k})

Items(d) == ItemsOf(d, DOMAIN d)

\* sum(breakdown.values())
DictSum(d) == SumSeq([i \in 1..Len(Items(d)) |-> Items(d)[i].value])

\* Truthiness of an optional list, dictionary or text.
Truthy(opt) == opt # None /\ opt[1] # <<>>

\* `value or ""` of an optional text.
OrEmpty(opt) == IF opt = None THEN <<>> ELSE opt[1]

\* ContextBuilder._format_rag_sources
FormatSource(source, i) ==
    LET content == DictGet(source, "page_content", <<>>)
        metadata == DictGet(source, "metadata", EmptyDict)
        doc_id == DictGet(metadata, "doc_id", "doc_" \o IndexText(i))
        namespace == DictGet(metadata, "namespace", "")
    IN  <<"### Document ", IndexText(i)>>
        \o (IF namespace # "" THEN <<" (namespace: ", namespace, ")">> ELSE <<>>)
        \o <<"\n**ID**: ", doc_id, "\n">>
        \o <<"\n">> \o content

_format_rag_sources(sources) ==
    Join([i \in 1..Len(sources) |-> FormatSource(sources[i], i)], <<"\n\n">>)

\* One tool result in ContextBuilder._format_tool_results. The results the
\* agent loop builds carry no timestamp; their dictionaries hold texts. The
\* marks of the status and the quotes of the name are written in ASCII.
FormatToolResult(result, i) ==
    LET status == IF result.success THEN "Success" ELSE "Failed"
        timestamp == DictGet(result, "timestamp", None)
        header == <<"### Tool ", IndexText(i), ": '", result.tool_name, "' (", status, ")">>
                  \o <<"\n**Time**: ", IF timestamp # None THEN timestamp[1] ELSE "N/A">>
                  \o <<"\n**Call ID**: ", result.tool_call_id>>
    IN  IF result.error # None
        THEN header \o <<"\n**Error**: ">> \o result.error
        ELSE header \o <<"\n**Result**:">>
             \o Flatten([k \in 1..Len(Items(result.result)) |->
                           <<"\n- **", Items(result.result)[k].key, "**: ",
                             Items(result.result)[k].value>>])

\* ContextBuilder._format_tool_results
_format_tool_results(tool_results) ==
    IF ~ Truthy(tool_results) THEN <<>>
    ELSE Join([i \in 1..Len(tool_results[1]) |-> FormatToolResult(tool_results[1][i], i)],
              <<"\n\n">>)

\* " ".join(f"{k}: {v}" for k, v in profile.items()); a profile is the list
\* of its items.
ProfileText(profile) ==
    Join([i \in 1..Len(profile) |-> <<profile[i][1], ": ", profile[i][2]>>], <<" ">>)

TotalTokens_without_tools(breakdown) == DictSum(breakdown) - breakdown.tools

\* total_tokens = sum(breakdown.values())
TotalTokens(breakdown) == DictSum(breakdown)

\* ContextBuilder._estimate_tokens
_estimate_tokens(short_term, semantic, profile, episodic, procedural, rag_text, tools_text) ==
    LET breakdown ==
            [short_term |-> count_tokens(short_term),
             episodic |-> count_tokens(episodic),
             rag |-> count_tokens(rag_text),
             tools |-> count_tokens(tools_text),
             semantic |-> IF Truthy(semantic)
                          THEN SumSeq([i \in 1..Len(semantic[1]) |->
                                          count_tokens(semantic[1][i])])
                          ELSE 0,
             profile |-> IF Truthy(profile) THEN count_tokens(ProfileText(profile[1]))
                         ELSE 0,
             procedural |-> IF Truthy(procedural)
                            THEN SumSeq([i \in 1..Len(procedural[1]) |->
                                            count_tokens(procedural[1][i])])
                            ELSE 0]
    IN  [total_tokens |-> TotalTokens(breakdown), breakdown |-> breakdown]

\* `x if x and len(x) > 0 else None` of a list or dictionary of the memory.
NonEmptyOrNone(opt) == IF Truthy(opt) /\ Len(opt[1]) > 0 THEN opt ELSE None

RagDocs_ignoring_success(rag_result) ==
    IF rag_result # None /\ rag_result[1].sources # <<>>
    THEN Some(rag_result[1].sources) ELSE None

\* rag_docs: the sources of a successful RAG result that has any.
RagDocs(rag_result) ==
    IF rag_result # None /\ rag_result[1].success /\ rag_result[1].sources # <<>>
    THEN Some(rag_result[1].sources) ELSE None

Exceeds_inclusive(estimated_tokens, max_tokens) == estimated_tokens >= max_tokens

\* `if estimated_tokens > self.max_tokens`
Exceeds(estimated_tokens, max_tokens) == estimated_tokens > max_tokens

TruncationWarnings(max_tokens, estimated_tokens) ==
    << <<"Context exceeds ", NumText(max_tokens), " tokens (estimated ",
         NumText(estimated_tokens), "). Applying truncation.">>,
       <<"Smart truncation not yet implemented. Returning full context.">> >>

\* CombinedContext() with the defaults of its fields.
DefaultCombinedContext ==
    [short_term_history |-> <<>>, semantic_facts |-> None, user_profile |-> None,
     episodic_summary |-> <<>>, procedural_patterns |-> None,
     rag_documents |-> None, rag_context |-> <<>>, tool_results |-> None,
     total_tokens_estimated |-> 0, token_breakdown |-> None, truncated |-> FALSE,
     truncation_strategy |-> None, warnings |-> None]

\* ContextBuilder.build_context, of a builder whose limit is max_tokens.
build_context(max_tokens, memory_context, rag_result, tool_results, prioritize) ==
    LET present == memory_context # None
        short_term == IF present THEN memory_context[1].short_term_context ELSE <<>>
        semantic == IF present THEN NonEmptyOrNone(Some(memory_context[1].semantic_facts))
                    ELSE None
        profile == IF present THEN NonEmptyOrNone(Some(memory_context[1].user_profile))
                   ELSE None
        episodic == IF present THEN OrEmpty(memory_context[1].episodic_summary) ELSE <<>>
        procedural == IF present THEN NonEmptyOrNone(memory_context[1].procedural_patterns)
                      ELSE None
        rag_docs == RagDocs(rag_result)
        rag_text == IF rag_docs # None THEN _format_rag_sources(rag_docs[1]) ELSE <<>>
        tool_results_text == IF Truthy(tool_results) THEN _format_tool_results(tool_results)
                             ELSE <<>>
        estimate == _estimate_tokens(short_term, semantic, profile, episodic, procedural,
                                     rag_text, tool_results_text)
        exceeds == Exceeds(estimate.total_tokens, max_tokens)
    IN  [short_term_history |-> short_term,
         semantic_facts |-> semantic,
         user_profile |-> profile,
         episodic_summary |-> episodic,
         procedural_patterns |-> procedural,
         rag_documents |-> rag_docs,
         rag_context |-> rag_text,
         tool_results |-> tool_results,
         total_tokens_estimated |-> estimate.total_tokens,
         token_breakdown |-> Some(estimate.breakdown),
         truncated |-> exceeds,
         truncation_strategy |-> IF exceeds THEN Some(prioritize) ELSE None,
         warnings |-> IF exceeds
                      THEN Some(TruncationWarnings(max_tokens, estimate.total_tokens))
                      ELSE None]

\* "\n".join(f"{prefix}{item}" for item in items)
Lines(prefix, items) ==
    Join([i \in 1..Len(items) |-> <<prefix>> \o items[i]], <<"\n">>)

Section(title, body) == <<title, "\n">> \o body

PromptSections_facts_first(context) ==
      (IF Truthy(context.semantic_facts)
       THEN <<Section("## Known Facts", Lines("- ", context.semantic_facts[1]))>>
       ELSE <<>>)
   \o (IF context.short_term_history # <<>>
       THEN <<Section("## Recent Conversation", context.short_term_history)>>
       ELSE <<>>)

\* The sections format_for_prompt appends, one `if` after the other.
PromptSections(context) ==
      (IF context.short_term_history # <<>>
       THEN <<Section("## Recent Conversation", context.short_term_history)>>
       ELSE <<>>)
   \o (IF context.rag_context # <<>>
       THEN <<Section("## Relevant Knowledge Base Documents", context.rag_context)>>
       ELSE <<>>)
   \o (IF Truthy(context.tool_results)
       THEN <<Section("## Tool Execution Results",
                      _format_tool_results(context.tool_results))>>
       ELSE <<>>)
   \o (IF Truthy(context.semantic_facts)
       THEN <<Section("## Known Facts", Lines("- ", context.semantic_facts[1]))>>
       ELSE <<>>)
   \o (IF Truthy(context.user_profile)
       THEN <<Section("## User Profile",
                      Join([i \in 1..Len(context.user_profile[1]) |->
                               <<"- ", context.user_profile[1][i][1], ": ",
                                 context.user_profile[1][i][2]>>], <<"\n">>))>>
       ELSE <<>>)
   \o (IF context.episodic_summary # <<>>
       THEN <<Section("## Conversation Summary", context.episodic_summary)>>
       ELSE <<>>)
   \o (IF Truthy(context.procedural_patterns)
       THEN <<Section("## Interaction Patterns",
                      Lines("- ", context.procedural_patterns[1]))>>
       ELSE <<>>)
   \o (IF Truthy(context.warnings)
       THEN <<Section("## Context Warnings", Lines("(!) ", context.warnings[1]))>>
       ELSE <<>>)

\* ContextBuilder.format_for_prompt
format_for_prompt(context) == Join(PromptSections(context), <<"\n\n">>)

\* The inputs of build_context.
ShortTermText == <<"User asked about Python.", "\n", "Assistant explained basics.">>

ShortTermTexts == {<<>>, ShortTermText}

FactLists == {<<>>, << <<"User prefers Python">>, <<"User is learning programming">> >>}

Profiles == {<<>>, << <<"skill_level", "beginner">>, <<"language", "Python">> >>}

EpisodicSummaries == {None, Some(<<>>), Some(<<"Discussion about Python programming">>)}

PatternLists == {None, Some(<<>>), Some(<< <<"Asks for code examples">> >>)}

MemoryContexts ==
    {None} \cup
    {Some(m) : m \in [short_term_context : ShortTermTexts, semantic_facts : FactLists,
                      user_profile : Profiles, episodic_summary : EpisodicSummaries,
                      procedural_patterns : PatternLists]}

PythonDoc == [page_content |-> <<"Python is a high-level programming language.">>,
              metadata |-> [doc_id |-> "doc1", namespace |-> "tutorials"]]

FastAPIDoc == [page_content |-> <<"FastAPI is a modern web framework.">>,
               metadata |-> EmptyDict]

RAGResult(success, sources, error_message) ==
    [success |-> success, response |-> <<"Generated response">>, sources |-> sources,
     error_message |-> error_message]

RAGResults ==
    {None,
     Some(RAGResult(FALSE, <<PythonDoc>>, Some(<<"index unavailable">>))),
     Some(RAGResult(TRUE, <<>>, None)),
     Some(RAGResult(TRUE, <<PythonDoc, FastAPIDoc>>, None))}

ContextToolCall(i) ==
    [id |-> "call_" \o IndexText(i), name |-> "calculator", args |-> EmptyDict]

ToolResultLists ==
    {None,
     Some(<<>>),
     Some(<<ExecutedResult(ContextToolCall(1), CalculatorData)>>),
     Some(<<FailedResult(ContextToolCall(1), Exc("RuntimeError", <<"Tool crashed">>)),
            ExecutedResult(ContextToolCall(2), CalculatorData)>>)}

Priorities == {"memory", "rag", "balanced"}

\* The limits of the builders: the default one, and one that the short-term
\* history alone fills to the last token.
TokenBudgets == {DefaultContextTokens, count_tokens(ShortTermText)}

\* Contexts put together by hand, as the callers of format_for_prompt may.
GivenContexts ==
    {DefaultCombinedContext,
     [DefaultCombinedContext EXCEPT
        !.short_term_history = <<"Recent chat">>,
        !.semantic_facts = Some(<< <<"Fact 1">>, <<"Fact 2">> >>),
        !.user_profile = Some(<< <<"name", "John">> >>),
        !.rag_context = <<"RAG document content">>],
     [DefaultCombinedContext EXCEPT
        !.rag_documents = Some(<<PythonDoc>>),
        !.warnings = Some(<< <<"Context is stale">> >>)]}

\* builder.build_context(memory_context, rag_result, tool_results, prioritize)
BuildContext(max_tokens, memory_context, rag_result, tool_results, prioritize) ==
    /\ pc = "idle"
    /\ args' = [max_tokens |-> max_tokens, memory_context |-> memory_context,
                rag_result |-> rag_result, tool_results |-> tool_results,
                prioritize |-> prioritize]
    /\ outcome' = [kind |-> "context",
                   context |-> build_context(max_tokens, memory_context, rag_result,
                                             tool_results, prioritize)]
    /\ pc' = "built"
    /\ UNCHANGED <<_tools, langchain_tools, langchain_messages, response, iteration,
                   tc_index, agent_steps, all_tool_results, step_number, llm_calls,
                   tool_execs, registry_consulted>>

\* builder.format_for_prompt(context) of the context just built.
FormatBuilt ==
    /\ pc = "built"
    /\ outcome' = [kind |-> "prompt", context |-> outcome.context,
                   text |-> format_for_prompt(outcome.context)]
    /\ pc' = "formatted"
    /\ UNCHANGED <<_tools, args, langchain_tools, langchain_messages, response, iteration,
                   tc_index, agent_steps, all_tool_results, step_number, llm_calls,
                   tool_execs, registry_consulted>>

\* builder.format_for_prompt(context) of a context put together by hand.
FormatGiven(context) ==
    /\ pc = "idle"
    /\ args' = [context |-> context]
    /\ outcome' = [kind |-> "prompt", context |-> context,
                   text |-> format_for_prompt(context)]
    /\ pc' = "formatted"
    /\ UNCHANGED <<_tools, langchain_tools, langchain_messages, response, iteration,
                   tc_index, agent_steps, all_tool_results, step_number, llm_calls,
                   tool_execs, registry_consulted>>

NextContext ==
    \/ \E max_tokens \in TokenBudgets, memory_context \in MemoryContexts,
          rag_result \in RAGResults, tool_results \in ToolResultLists,
          prioritize \in Priorities :
            BuildContext(max_tokens, memory_context, rag_result, tool_results, prioritize)
    \/ FormatBuilt
    \/ \E context \in GivenContexts : FormatGiven(context)

SpecContext == Init /\ [][NextContext]_vars

-----------------------------------------------------------------------------
(* Properties of the ContextBuilder *)

\* The context build_context has just returned.
Built == pc = "built"

BreakdownKeys ==
    {"short_term", "episodic", "rag", "tools", "semantic", "profile", "procedural"}

\* C16: in every context that build_context returns, whatever sources were
\* given, total_tokens_estimated is the sum of the seven entries of
\* token_breakdown.
C16_TotalIsSumOfBreakdown ==
    Built =>
        LET c == outcome.context
            b == c.token_breakdown[1]
        IN  /\ DOMAIN b = BreakdownKeys
            /\ c.total_tokens_estimated =
                  b.short_term + b.episodic + b.rag + b.tools
                  + b.semantic + b.profile + b.procedural

C16_Witness ==
    /\ Built
    /\ \A k \in BreakdownKeys : outcome.context.token_breakdown[1][k] > 0
    /\ outcome.context.total_tokens_estimated > outcome.context.token_breakdown[1].tools

C16_WitnessEmpty ==
    /\ Built
    /\ args.memory_context = None /\ args.rag_result = None /\ args.tool_results = None
    /\ outcome.context.total_tokens_estimated = 0

\* The sources of build_context that are absent or empty.
NoMemory == args.memory_context = None

NoRag ==
    \/ args.rag_result = None
    \/ ~ args.rag_result[1].success
    \/ args.rag_result[1].sources = <<>>

NoToolResults == args.tool_results = None \/ args.tool_results[1] = <<>>

\* C17: a source that is absent or empty leaves its fields of the context
\* empty or absent and its entries of token_breakdown at zero, whatever the
\* other sources are: no memory context, a RAG result that is absent, failed
\* or without sources, no tool results.
C17_AbsentSourceContributesNothing ==
    Built =>
        LET c == outcome.context
            b == c.token_breakdown[1]
        IN  /\ NoMemory =>
                /\ c.short_term_history = <<>>
                /\ c.semantic_facts = None
                /\ c.user_profile = None
                /\ c.episodic_summary = <<>>
                /\ c.procedural_patterns = None
                /\ b.short_term = 0 /\ b.semantic = 0 /\ b.profile = 0
                /\ b.episodic = 0 /\ b.procedural = 0
            /\ NoRag =>
                /\ c.rag_documents = None
                /\ c.rag_context = <<>>
                /\ b.rag = 0
            /\ NoToolResults =>
                /\ ~ Truthy(c.tool_results)
                /\ b.tools = 0

\* A failed RAG result that carries sources, next to a memory and tool
\* results that do contribute.
C17_Witness ==
    /\ Built
    /\ args.rag_result # None
    /\ ~ args.rag_result[1].success
    /\ args.rag_result[1].sources # <<>>
    /\ outcome.context.rag_documents = None
    /\ outcome.context.token_breakdown[1].short_term > 0
    /\ outcome.context.token_breakdown[1].tools > 0

\* The components of the context are those of the inputs, whole.
ComponentsInFull ==
    LET c == outcome.context
    IN  /\ ~ NoMemory =>
            /\ c.short_term_history = args.memory_context[1].short_term_context
            /\ c.semantic_facts # None =>
                  c.semantic_facts[1] = args.memory_context[1].semantic_facts
            /\ c.semantic_facts = None => args.memory_context[1].semantic_facts = <<>>
            /\ c.user_profile # None =>
                  c.user_profile[1] = args.memory_context[1].user_profile
            /\ c.user_profile = None => args.memory_context[1].user_profile = <<>>
            /\ c.episodic_summary = OrEmpty(args.memory_context[1].episodic_summary)
            /\ c.procedural_patterns # None =>
                  c.procedural_patterns = args.memory_context[1].procedural_patterns
            /\ c.procedural_patterns = None =>
                  ~ Truthy(args.memory_context[1].procedural_patterns)
        /\ ~ NoRag =>
            /\ c.rag_documents = Some(args.rag_result[1].sources)
            /\ c.rag_context = _format_rag_sources(args.rag_result[1].sources)
        /\ c.tool_results = args.tool_results

C18_WitnessAtLimit ==
    /\ Built
    /\ outcome.context.total_tokens_estimated = args.max_tokens
    /\ ~ outcome.context.truncated

\* The titles of the sections in the order format_for_prompt knows them.
SectionTitles ==
    <<"## Recent Conversation", "## Relevant Knowledge Base Documents",
      "## Tool Execution Results", "## Known Facts", "## User Profile",
      "## Conversation Summary", "## Interaction Patterns", "## Context Warnings">>

\* Is the field of the context that the i-th section renders non-empty?
SourceFieldNonEmpty(c, i) ==
    CASE i = 1 -> c.short_term_history # <<>>
      [] i = 2 -> c.rag_context # <<>>
      [] i = 3 -> Truthy(c.tool_results)
      [] i = 4 -> Truthy(c.semantic_facts)
      [] i = 5 -> Truthy(c.user_profile)
      [] i = 6 -> c.episodic_summary # <<>>
      [] i = 7 -> Truthy(c.procedural_patterns)
      [] i = 8 -> Truthy(c.warnings)

\* The titles found in a prompt, in the order of the text.
TitlesIn(text) == SelectSeq(text, LAMBDA piece : piece \in Range(SectionTitles))

\* C19: the prompt holds the titles of exactly the sections whose source
\* field is non-empty, each once and in the fixed order, and is the empty
\* string for a context whose source fields are all empty.
C19_SectionsInFixedOrder ==
    pc = "formatted" =>
        LET c == outcome.context
            present == SelectSeq([i \in 1..Len(SectionTitles) |-> i],
                                 LAMBDA i : SourceFieldNonEmpty(c, i))
        IN  /\ TitlesIn(outcome.text) = [k \in 1..Len(present) |-> SectionTitles[present[k]]]
            /\ present = <<>> => outcome.text = <<>>

C19_Witness ==
    /\ pc = "formatted"
    /\ TitlesIn(outcome.text) = SectionTitles

C19_WitnessEmpty ==
    /\ pc = "formatted"
    /\ outcome.context = DefaultCombinedContext
    /\ outcome.text = <<>>

-----------------------------------------------------------------------------
(* MCPToolRegistry: the calls on the registry, as their caller sees them *)

RegistryNames == ToolNames \cup {"mock_tool"}

\* What a caller may hand to register: tools, and an object that is no tool.
NotATool == [repr |-> "not a tool"]

Registrables == {Tool(name, impl) : name \in RegistryNames, impl \in ToolImpls}
                    \cup {NotATool}

\* What a method of the registry returned.
ReturnedValue(value) == [kind |-> "returned", value |-> value]

\* The rest of the state belongs to the agent loop; no call is running.
RegistryFrame ==
    /\ pc = "idle"
    /\ UNCHANGED <<pc, langchain_tools, langchain_messages, response, iteration,
                   tc_index, agent_steps, all_tool_results, step_number, llm_calls,
                   tool_execs, registry_consulted>>

\* registry.register(obj)
CallRegister(obj) ==
    /\ RegistryFrame
    /\ args' = [op |-> "register", tool |-> obj]
    /\ IF RegisterError(obj) # None
       THEN /\ outcome' = Raised(RegisterError(obj)[1])
            /\ UNCHANGED _tools
       ELSE /\ _tools' = DictSet(_tools, obj)
            /\ outcome' = ReturnedValue(None)

\* registry.unregister(tool_name)
CallUnregister(tool_name) ==
    /\ RegistryFrame
    /\ args' = [op |-> "unregister", name |-> tool_name]
    /\ IF UnregisterError(tool_name) # None
       THEN /\ outcome' = Raised(UnregisterError(tool_name)[1])
            /\ UNCHANGED _tools
       ELSE /\ _tools' = Without(_tools, tool_name)
            /\ outcome' = ReturnedValue(None)

\* registry.get_tool(name)
CallGetTool(name) ==
    /\ RegistryFrame
    /\ args' = [op |-> "get_tool", name |-> name]
    /\ outcome' = ReturnedValue(get_tool(name))
    /\ UNCHANGED _tools

\* registry.has_tool(name)
CallHasTool(name) ==
    /\ RegistryFrame
    /\ args' = [op |-> "has_tool", name |-> name]
    /\ outcome' = ReturnedValue(has_tool(name))
    /\ UNCHANGED _tools

\* registry.list_tools()
CallListTools ==
    /\ RegistryFrame
    /\ args' = [op |-> "list_tools"]
    /\ outcome' = ReturnedValue(list_tools)
    /\ UNCHANGED _tools

\* registry.clear()
CallClear ==
    /\ RegistryFrame
    /\ args' = [op |-> "clear"]
    /\ _tools' = <<>>
    /\ outcome' = ReturnedValue(None)

NextRegistry ==
    \/ \E obj \in Registrables : CallRegister(obj)
    \/ \E tool_name \in RegistryNames : CallUnregister(tool_name)
    \/ \E name \in RegistryNames : CallGetTool(name)
    \/ \E name \in RegistryNames : CallHasTool(name)
    \/ CallListTools
    \/ CallClear

SpecRegistry == Init /\ [][NextRegistry]_vars

-----------------------------------------------------------------------------
(* Properties of the registry *)

\* The tools that a registry holds under a name.
Held(tools, name) == {tools[i] : i \in {j \in 1..Len(tools) : tools[j].name = name}}

\* The step in which register was called.
RegisterStep ==
    /\ pc = "idle"
    /\ "op" \in DOMAIN args'
    /\ args'.op = "register"
    /\ <<args', outcome', _tools'>> # <<args, outcome, _tools>>

\* C20: register of a tool whose name the registry holds raises the
\* ValueError 'already registered' and leaves the registry as it was, so
\* that get_tool still returns the tool registered first; register of a tool
\* whose name it does not hold adds the tool at the end; and at all times no
\* two tools of the registry have the same name.
C20_RegisterRejectsDuplicates ==
    /\ [](\A i, j \in 1..Len(_tools) : _tools[i].name = _tools[j].name => i = j)
    /\ [][(RegisterStep /\ IsMCPTool(args'.tool)) =>
            IF args'.tool.name \in Range(ToolKeys)
            THEN /\ outcome'.kind = "raised"
                 /\ outcome'.exc.type = "ValueError"
                 /\ outcome'.exc.msg[3] = "' is already registered. "
                 /\ _tools' = _tools
                 /\ Held(_tools', args'.tool.name) = Held(_tools, args'.tool.name)
            ELSE /\ outcome' = ReturnedValue(None)
                 /\ _tools' = Append(_tools, args'.tool)
                 /\ Held(_tools', args'.tool.name) = {args'.tool}
         ]_vars

\* A second tool of a name was refused and the first one is still there.
C20_Witness ==
    /\ "op" \in DOMAIN args
    /\ args.op = "register"
    /\ IsMCPTool(args.tool)
    /\ outcome.kind = "raised"
    /\ get_tool(args.tool.name) # None
    /\ get_tool(args.tool.name)[1].impl # args.tool.impl
    /\ Len(_tools) = 2

\* The call on the registry that has just been made.
Called(op) == "op" \in DOMAIN args /\ args.op = op

\* The step in which unregister was called.
UnregisterStep ==
    /\ pc = "idle"
    /\ "op" \in DOMAIN args'
    /\ args'.op = "unregister"
    /\ <<args', outcome', _tools'>> # <<args, outcome, _tools>>

\* C21: unregister of a name the registry does not hold raises the KeyError
\* 'not found in registry' and leaves the registry as it was; unregister of
\* a name it holds removes the tool of that name and no other, the rest
\* staying in their order; and get_tool and has_tool answer by what the
\* registry holds, nothing and false for a name that was removed.
C21_UnregisterRemovesOnlyNamed ==
    /\ [][UnregisterStep =>
            IF args'.name \notin Range(ToolKeys)
            THEN /\ outcome'.kind = "raised"
                 /\ outcome'.exc.type = "KeyError"
                 /\ outcome'.exc.msg[3] = "' not found in registry"
                 /\ _tools' = _tools
            ELSE /\ outcome' = ReturnedValue(None)
                 /\ Held(_tools', args'.name) = {}
                 /\ _tools' = SelectSeq(_tools, LAMBDA tool : tool.name # args'.name)
         ]_vars
    /\ [](Called("get_tool") =>
            IF Held(_tools, args.name) = {}
            THEN outcome.value = None
            ELSE outcome.value # None /\ Held(_tools, args.name) = {outcome.value[1]})
    /\ [](Called("has_tool") => outcome.value = (Held(_tools, args.name) # {}))

\* A tool was removed from between two others.
C21_Witness ==
    /\ Called("unregister")
    /\ outcome = ReturnedValue(None)
    /\ Len(_tools) = 2
    /\ _tools[1].name = "get_current_datetime"
    /\ args.name = "calculator"
    /\ _tools[2].name = "mock_tool"

\* The names of a registry, in its order.
NamesOf(tools) == [i \in 1..Len(tools) |-> tools[i].name]

\* A step in which register returned.
RegisterReturned ==
    /\ RegisterStep
    /\ outcome' = ReturnedValue(None)

\* C22: list_tools returns the names the registry holds, each once, and
\* their order is that of their latest registration: a register that
\* returns puts its name after all the names held, and every other step
\* leaves the names that remain in the order they had.
C22_ListInRegistrationOrder ==
    /\ [](Called("list_tools") =>
            /\ Range(outcome.value) = {tool.name : tool \in Range(_tools)}
            /\ \A i, j \in 1..Len(outcome.value) :
                  outcome.value[i] = outcome.value[j] => i = j
            /\ \A i, j \in 1..Len(outcome.value) :
                  i < j => \E k, l \in 1..Len(_tools) :
                              /\ k < l
                              /\ _tools[k].name = outcome.value[i]
                              /\ _tools[l].name = outcome.value[j])
    /\ [][IF RegisterReturned
          THEN NamesOf(_tools') = Append(NamesOf(_tools), args'.tool.name)
          ELSE NamesOf(_tools') =
                  SelectSeq(NamesOf(_tools), LAMBDA name : name \in Range(NamesOf(_tools')))
        ]_vars

\* The built-in tool was unregistered and registered again after two others.
C22_Witness ==
    /\ Called("list_tools")
    /\ outcome.value = <<"mock_tool", "calculator", "get_current_datetime">>

-----------------------------------------------------------------------------
(* MCPToolRegistry.register called by two threads at once *)

\* The registry has no lock: between the membership test of one register
\* and its assignment, the other thread may run.  Here pc, args and outcome
\* hold one entry for each thread.
Writers == {"w1", "w2"}

InitRace ==
    /\ _tools = <<DateTimeTool>>
    /\ pc = [w \in Writers |-> "called"]
    /\ args \in [Writers -> Registrables]
    /\ outcome = [w \in Writers |-> [kind |-> "none"]]
    /\ langchain_tools = <<>>
    /\ langchain_messages = <<>>
    /\ response = [content |-> ResponseText(0), tool_calls |-> <<>>]
    /\ iteration = 0
    /\ tc_index = 0
    /\ agent_steps = <<>>
    /\ all_tool_results = <<>>
    /\ step_number = 1
    /\ llm_calls = <<>>
    /\ tool_execs = <<>>
    /\ registry_consulted = FALSE

\* register up to its assignment: the isinstance test and the membership
\* test, and the ValueError either raises.
RaceCheck(w) ==
    /\ pc[w] = "called"
    /\ IF RegisterError(args[w]) # None
       THEN /\ pc' = [pc EXCEPT ![w] = "raised"]
            /\ outcome' = [outcome EXCEPT ![w] = Raised(RegisterError(args[w])[1])]
       ELSE /\ pc' = [pc EXCEPT ![w] = "checked"]
            /\ UNCHANGED outcome
    /\ UNCHANGED <<_tools, args, langchain_tools, langchain_messages, response, iteration,
                   tc_index, agent_steps, all_tool_results, step_number, llm_calls,
                   tool_execs, registry_consulted>>

\* `self._tools[tool_name] = tool`, and the return.
RaceWrite(w) ==
    /\ pc[w] = "checked"
    /\ _tools' = DictSet(_tools, args[w])
    /\ pc' = [pc EXCEPT ![w] = "returned"]
    /\ outcome' = [outcome EXCEPT ![w] = ReturnedValue(None)]
    /\ UNCHANGED <<args, langchain_tools, langchain_messages, response, iteration,
                   tc_index, agent_steps, all_tool_results, step_number, llm_calls,
                   tool_execs, registry_consulted>>

NextRace ==
    \/ \E w \in Writers : RaceCheck(w)
    \/ \E w \in Writers : RaceWrite(w)

SpecRace == InitRace /\ [][NextRace]_vars

\* Both register calls are over.
BothDone == \A w \in Writers : pc[w] \in {"returned", "raised"}

\* The two threads register tools of one name, which the registry did not hold.
SameNewName ==
    /\ \A w \in Writers : IsMCPTool(args[w])
    /\ args["w1"].name = args["w2"].name
    /\ args["w1"].name # DateTimeTool.name

\* C23: of two register calls for one name that run at the same time one
\* returns and the other raises the duplicate ValueError, and at every
\* moment a lookup finds the tool of each register that has returned: no
\* registered tool is replaced.
C23_WritersSerialized ==
    /\ (BothDone /\ SameNewName) =>
          \E w \in Writers :
              /\ outcome[w] = ReturnedValue(None)
              /\ \A v \in Writers \ {w} :
                    /\ outcome[v].kind = "raised"
                    /\ outcome[v].exc.type = "ValueError"
    /\ \A w \in Writers :
          pc[w] = "returned" => get_tool(args[w].name) = Some(args[w])

-----------------------------------------------------------------------------
(* Properties of the agent loop, continued *)

\* The tool message the loop appended for a tool result.
MessageOf(tool_result) ==
    CHOOSE m \in Range(ToolMessages) : m.tool_call_id = tool_result.tool_call_id

\* The text of a tool message tells the error of a result: the dictionary
\* it renders has the error among its entries.
ConveysError(m, tool_result) ==
    /\ "error" \in DOMAIN m.content.repr
    /\ m.content.repr.error = tool_result.error

\* C24: when the next LLM call is about to be made, the messages it will
\* get hold, for every tool call that failed so far, a tool message of
\* that call whose content tells the failure and its error text.
C24_FailureVisibleToLLM ==
    pc \in {"await_llm", "await_final"} =>
        \A i \in 1..Len(all_tool_results) :
            ~ all_tool_results[i].success =>
                /\ \E m \in Range(ToolMessages) :
                      m.tool_call_id = all_tool_results[i].tool_call_id
                /\ ConveysError(MessageOf(all_tool_results[i]), all_tool_results[i])

\* C25: a call that raised a ValueError had made no LLM call, and a call
\* that failed after an LLM call was issued raised the wrapping
\* RuntimeError (a cancellation is no failure of the loop).
C25_ValidationErrorOnlyBeforeLLM ==
    pc = "raised" =>
        /\ outcome.exc.type = "ValueError" => llm_calls = <<>>
        /\ (llm_calls # <<>> /\ outcome.exc.type # "CancelledError") =>
              outcome.exc.type = "RuntimeError"

\* The call being made has nothing to bind: tool_names is an empty list, or
\* it is absent and the registry holds no tool.
NothingToBind(a) ==
    \/ a.tool_names = Some(<<>>)
    \/ a.tool_names = None /\ _tools = <<>>

\* C26: a call of chat_with_tools with an empty set of tools to bind raises
\* a ValueError with no LLM call made, and when its other parameters are
\* valid that ValueError is 'No tools available'.
C26_NoToolsAvailable ==
    [][(CallStep /\ NothingToBind(args')) =>
          /\ pc' = "raised"
          /\ outcome'.exc.type = "ValueError"
          /\ llm_calls' = <<>>
          /\ ~ EntryCheck(args').raised =>
                outcome'.exc.msg = <<"No tools available">>]_vars

C26_Witness ==
    /\ pc = "raised"
    /\ args.tool_names = Some(<<>>)
    /\ _tools # <<>>
    /\ outcome.exc = Exc("ValueError", <<"No tools available">>)
    /\ llm_calls = <<>>

C26_WitnessEmptyRegistry ==
    /\ pc = "raised"
    /\ args.tool_names = None
    /\ _tools = <<>>
    /\ outcome.exc = Exc("ValueError", <<"No tools available">>)
    /\ llm_calls = <<>>

-----------------------------------------------------------------------------
(* Termination of chat_with_tools *)

\* A call makes at most max_iterations LLM calls with tools bound and the
\* forced one; the cap keeps the state space finite and never binds.
CallBudget == Len(llm_calls) <= MaxIterations + 1

\* The steps of a running call: each ainvoke and each execute it awaits
\* returns or raises, and the code between two awaits runs.
LoopStep ==
    /\ CallBudget
    /\ \/ \E r \in LLMResponses(Len(llm_calls) + 1) : LLMReturns(r)
       \/ \E e \in LLMErrors \cup {CancelledError} : LLMRaises(e)
       \/ ToolLookup
       \/ ToolReturns
       \/ ToolRaises
       \/ FinalReturns

NextFair ==
    \/ \E name \in ToolNames : register(Tool(name, "first"))
    \/ \E name \in ToolNames : unregister(name)
    \/ \E a \in CallArgs : Call(a)
    \/ LoopStep

SpecFair == Init /\ [][NextFair]_vars /\ WF_vars(LoopStep)

Terminated == pc \in {"returned", "raised"}

\* C27: every call of chat_with_tools whose awaited LLM calls and tool
\* executions return or raise ends: it returns an answer (the LLM's or the
\* forced one) or raises, whatever the LLM responds.
C27_CallTerminates == (pc # "idle") ~> Terminated

C27_Witness ==
    /\ pc = "returned"
    /\ Len(llm_calls) = MaxIterations + 1
    /\ Len(all_tool_results) = MaxIterations * MaxToolCalls
    /\ \A i \in 1..Len(all_tool_results) : ~ all_tool_results[i].success

-----------------------------------------------------------------------------
(* The loop and the shared registry *)

\* The tool call being resolved names a registered tool that was not bound.
OutsideBound(name) == has_tool(name) /\ name \notin Range(langchain_tools)

BoundButGone(name) == name \in Range(langchain_tools) /\ ~ has_tool(name)

NotFoundText(name) == <<"Tool '", name, "' not found in registry">>

\* Another actor registers or unregisters a tool.
RegistryChanges == _tools' # _tools

\* C29: a call to a tool that was bound at loop start and unregistered while
\* the loop was suspended is recorded as a not-found result with success
\* false and the loop goes on without raising; a register or unregister
\* interleaved with a running loop changes neither its position nor its
\* outcome.
C29_UnregisteredToolIsNotFound ==
    /\ [][(pc = "lookup" /\ BoundButGone(CurrentCall.name)) =>
              /\ Len(all_tool_results') = Len(all_tool_results) + 1
              /\ LET recorded == all_tool_results'[Len(all_tool_results')]
                 IN  /\ recorded.tool_call_id = CurrentCall.id
                     /\ recorded.tool_name = CurrentCall.name
                     /\ ~ recorded.success
                     /\ recorded.error = NotFoundText(CurrentCall.name)
              /\ pc' \in {"lookup", "await_llm", "await_final"}
              /\ outcome' = outcome]_vars
    /\ [][RegistryChanges => (pc' = pc /\ outcome' = outcome)]_vars

C29_Witness ==
    /\ pc = "returned"
    /\ langchain_tools = <<"get_current_datetime">>
    /\ ~ has_tool("get_current_datetime")
    /\ Len(all_tool_results) = 1
    /\ ~ all_tool_results[1].success
    /\ all_tool_results[1].error = NotFoundText("get_current_datetime")

-----------------------------------------------------------------------------
(* MCPToolBase.execute_with_validation *)

\* Keyword arguments are dictionaries; a text-or-None value is None or
\* Some(text).  DateTimeInput knows two fields; MCPToolInput knows none.
Formats == {"iso", "human", "timestamp"}
FormatValues == Formats \cup {"invalid_format", "ISO"}
KnownTimezones == {"UTC", "Europe/London"}
TimezoneValues == {None, Some(""), Some("Invalid/Timezone")} \cup {Some(tz) : tz \in KnownTimezones}
KwargKeys == {"format", "timezone", "verbose"}

Kwargs ==
    {[k \in keys |-> IF k = "format" THEN f ELSE IF k = "timezone" THEN t ELSE TRUE] :
        keys \in SUBSET KwargKeys, f \in FormatValues, t \in TimezoneValues}

ValidationError(model) == Exc("ValidationError", <<"1 validation error for ", model>>)

\* DateTimeInput(**kwargs) and its model_dump(): defaults are filled in, keys
\* that are no field are ignored, a format outside the Literal is rejected.
DateTimeInput_any_format(kwargs) ==
    [raised |-> FALSE,
     value |-> [format |-> DictGet(kwargs, "format", "iso"),
                timezone |-> DictGet(kwargs, "timezone", None)]]

DateTimeInput(kwargs) ==
    IF DictGet(kwargs, "format", "iso") \notin Formats
    THEN [raised |-> TRUE, exc |-> ValidationError("DateTimeInput")]
    ELSE [raised |-> FALSE,
          value |-> [format |-> DictGet(kwargs, "format", "iso"),
                     timezone |-> DictGet(kwargs, "timezone", None)]]

\* MCPToolInput(**kwargs): no field, nothing to reject.
MCPToolInput(kwargs) == [raised |-> FALSE, value |-> EmptyDict]

input_schema(tool_name, kwargs) ==
    IF tool_name = "get_current_datetime" THEN DateTimeInput(kwargs) ELSE MCPToolInput(kwargs)

\* now.isoformat(), now.timestamp(), now.strftime(...)
NowText(format) ==
    IF format = "iso" THEN "2025-01-01T00:00:00+00:00"
    ELSE IF format = "timestamp" THEN "1735689600.0"
    ELSE "Wednesday, January 01, 2025 at 12:00:00 AM UTC"

\* DateTimeTool.execute on inputs its schema accepts.
DateTimeResult(inputs) ==
    IF inputs.timezone # None /\ inputs.timezone # Some("")
       /\ inputs.timezone[1] \notin KnownTimezones
    THEN [success |-> FALSE, datetime |-> "", format |-> inputs.format,
          timezone |-> inputs.timezone[1],
          error |-> <<"Invalid timezone '", inputs.timezone[1], "': ", "unknown">>]
    ELSE [success |-> TRUE, datetime |-> NowText(inputs.format), format |-> inputs.format,
          timezone |-> IF inputs.timezone # None /\ inputs.timezone # Some("")
                       THEN inputs.timezone[1] ELSE "UTC",
          error |-> None]

\* What `await self.execute(**kwargs)` may return and may raise.  The
\* datetime tool validates its inputs again and awaits nothing; another tool
\* returns its data, crashes, or is cancelled while it awaits.
ExecuteResults(tool_name, kwargs) ==
    IF tool_name = "get_current_datetime"
    THEN IF DateTimeInput(kwargs).raised THEN {} ELSE {DateTimeResult(DateTimeInput(kwargs).value)}
    ELSE {CalculatorData}

ExecuteErrors(tool_name, kwargs) ==
    IF tool_name = "get_current_datetime"
    THEN IF DateTimeInput(kwargs).raised THEN {DateTimeInput(kwargs).exc} ELSE {}
    ELSE ToolErrors(tool_name) \cup {CancelledError}

\* DateTimeOutput(**result) and its model_dump(): four required fields, and
\* error with its default.
DateTimeOutputFields == {"success", "datetime", "format", "timezone"}

DateTimeOutput(result) ==
    IF ~ (DateTimeOutputFields \subseteq DOMAIN result)
    THEN [raised |-> TRUE, exc |-> ValidationError("DateTimeOutput")]
    ELSE [raised |-> FALSE,
          value |-> [success |-> result.success, datetime |-> result.datetime,
                     format |-> result.format, timezone |-> result.timezone,
                     error |-> DictGet(result, "error", None)]]

\* output_schema is None unless the tool defines one.
HasOutputSchema(tool_name) == tool_name = "get_current_datetime"

\* `raise ValueError(f"Input validation failed: {e}") from e`
InputValidationFailed(e) == Exc("ValueError", <<"Input validation failed: ">> \o StrOfExc(e))
OutputValidationFailed(e) == Exc("ValueError", <<"Output validation failed: ">> \o StrOfExc(e))

\* The execute invocation, with the keyword arguments it received.
Execution(tool_name, kwargs, raised) == [name |-> tool_name, kwargs |-> kwargs, raised |-> raised]

ValidateFrame ==
    UNCHANGED <<_tools, langchain_tools, langchain_messages, response, iteration, tc_index,
                agent_steps, all_tool_results, step_number, llm_calls, registry_consulted>>

\* tool.execute_with_validation(**kwargs), up to the await of execute.
CallExecuteWithValidation(tool_name, kwargs) ==
    /\ pc = "idle"
    /\ ValidateFrame
    /\ UNCHANGED tool_execs
    /\ LET validated_inputs == input_schema(tool_name, kwargs)
       IN  IF validated_inputs.raised
           THEN /\ args' = [op |-> "execute_with_validation", tool |-> tool_name,
                            given |-> kwargs]
                /\ pc' = "raised"
                /\ outcome' = Raised(InputValidationFailed(validated_inputs.exc))
           ELSE /\ args' = [op |-> "execute_with_validation", tool |-> tool_name,
                            given |-> kwargs, kwargs |-> validated_inputs.value]
                /\ pc' = "await_execute"
                /\ UNCHANGED outcome

\* execute returns; the result is validated when the tool has an output schema.
ExecuteReturns ==
    /\ pc = "await_execute"
    /\ ValidateFrame
    /\ UNCHANGED args
    /\ \E result \in ExecuteResults(args.tool, args.kwargs) :
        /\ tool_execs' = Append(tool_execs, Execution(args.tool, args.kwargs, None))
        /\ IF ~ HasOutputSchema(args.tool)
           THEN pc' = "returned" /\ outcome' = ReturnedValue(result)
           ELSE IF DateTimeOutput(result).raised
           THEN /\ pc' = "raised"
                /\ outcome' = Raised(OutputValidationFailed(DateTimeOutput(result).exc))
           ELSE /\ pc' = "returned"
                /\ outcome' = ReturnedValue(DateTimeOutput(result).value)

\* execute raises: nothing catches it.
ExecuteRaises ==
    /\ pc = "await_execute"
    /\ ValidateFrame
    /\ UNCHANGED args
    /\ \E e \in ExecuteErrors(args.tool, args.kwargs) :
        /\ tool_execs' = Append(tool_execs, Execution(args.tool, args.kwargs, Some(e)))
        /\ pc' = "raised"
        /\ outcome' = Raised(e)

NextValidate ==
    \/ \E tool_name \in ToolNames, kwargs \in Kwargs :
           CallExecuteWithValidation(tool_name, kwargs)
    \/ ExecuteReturns
    \/ ExecuteRaises

SpecValidate == Init /\ [][NextValidate]_vars

\* The arguments given to the call violate the input schema of its tool.
ViolatesSchema ==
    /\ Called("execute_with_validation")
    /\ args.tool = "get_current_datetime"
    /\ "format" \in DOMAIN args.given
    /\ args.given.format \notin {"iso", "human", "timestamp"}

\* C30: a call of execute_with_validation whose arguments violate the
\* tool's input schema has raised ValueError 'Input validation failed' and
\* the tool's execute was never invoked.
C30_InvalidInputNeverExecutes ==
    ViolatesSchema =>
        /\ pc = "raised"
        /\ outcome.exc.type = "ValueError"
        /\ Head(outcome.exc.msg) = "Input validation failed: "
        /\ tool_execs = <<>>

C30_Witness ==
    /\ ViolatesSchema
    /\ args.given.format = "invalid_format"
    /\ pc = "raised"
    /\ tool_execs = <<>>

====
